---- MODULE Spec2Model ----
(***************************************************************************)
(* Model of two components of the scan backend:                            *)
(*   - services/lighthouse.py: fetch_psi, the cache / single-flight /      *)
(*     circuit-breaker wrapper around the PageSpeed Insights call;         *)
(*   - api/routes/scan_jobs.py and worker.py: the ScanJob ledger row and   *)
(*     the background pipeline process_scan_job that writes to it.         *)
(*   - services/check_engine.py and api/routes/scan.py: evaluate_rules and *)
(*     the visibility score scan_url builds from its result.               *)
(* Each component has its own next-state relation (NextPsi, NextLedger,    *)
(* NextRules) over the shared variable tuple; the other components'        *)
(* variables stay unchanged.                                               *)
(***************************************************************************)
EXTENDS Integers, Sequences, FiniteSets, TLC

(* ---------------- program constants ---------------- *)
CIRCUIT_BREAKER_THRESHOLD == 3
CIRCUIT_BREAKER_RESET_SECONDS == 300
PSI_CACHE_TTL_SECONDS == 43200
\* event.wait(timeout=30)
WAIT_TIMEOUT_SECONDS == 30
\* stop_after_attempt(3)
STOP_AFTER_ATTEMPT == 3

\* os.getenv("SCAN_JOB_TTL_SECONDS", "86400") in cleanup_expired_jobs
SCAN_JOB_TTL_SECONDS == 86400

(* ---------------- bounds of the model ---------------- *)
\* number of jobs created by start_scan in a run
MaxJobs == 2
\* number of times the queue hands one job's request to a worker
MaxDeliveries == 2
\* number of times the clock advances in a run of the ledger
MaxLedgerTicks == 1
\* total number of fetch_psi invocations in a run
MaxCalls == 4
\* number of times the clock advances in a run
MaxTicks == 1
\* longest rules list given to evaluate_rules
MaxRules == 4
\* longest point-rule list of a scoring dimension
MaxDimRules == 2
\* request threads of scan_url, each serving one request
MaxThreads == 3
\* how often the rate limiter's clock advances
MaxRateTicks == 1
\* how often the rules file is written or removed
MaxWrites == 2
\* how many get_rules calls are made
MaxLoads == 3
\* the largest modification time of a rules file
MaxMtime == 3

\* the threads calling fetch_psi in one process
Threads == {1, 2}
Urls == {"u1", "u2"}
Strategies == {"mobile", "desktop"}
\* the (url, strategy) pairs fetch_psi is called with: "mobile" is the default
\* strategy of every caller, one url is also fetched with "desktop"
Keys == {k \in Urls \X Strategies : k[2] = "mobile" \/ k[1] = "u1"}
\* enough Event objects for every reference that can be live at once
EventIds == 1..(Cardinality(Threads) + Cardinality(Urls))
NoEvent == 0
\* the amounts by which the clock advances between two steps
TickSteps == {WAIT_TIMEOUT_SECONDS, CIRCUIT_BREAKER_RESET_SECONDS, PSI_CACHE_TTL_SECONDS}

\* the worker processes pulling from the queue
Workers == {1, 2}
JobIds == 1..MaxJobs
\* what validate_url_or_raise says of a job's url
UrlKinds == {"public", "blocked"}
LedgerTickSteps == {1, SCAN_JOB_TTL_SECONDS + 1}

VARIABLES
    \* ---- the scanjob table, start_scan requests, the RQ queue ----
    jobs,                           \* job id -> row of the scanjob table
    apiPc,                          \* job id -> position of its start_scan request
    apiStatus,                      \* job id -> job.status held by its start_scan request
    response,                       \* job id -> status in the ScanJobEnqueued response
    unqueued,                       \* job ids whose enqueue raised in start_scan
    queue,                          \* job ids with a process_scan_job request queued
    deliveries,                     \* job id -> times its request was handed to a worker
    \* ---- per worker: position in process_scan_job and its locals ----
    wpc, wjob, wsnap,
    wexc,                           \* worker -> the stage whose exception the handler caught
    \* ---- the follow-up job process_shallow_crawl ----
    crawl_queue,                    \* job ids with a process_shallow_crawl request queued
    extra_pages,                    \* job ids whose row holds the crawl's extra pages
    uncrawled,                      \* job ids whose follow-up enqueue raised
    \* ---- lighthouse.py module state ----
    now,                            \* time.time()
    ticks,                          \* how often the clock has advanced
    apiKey,                         \* os.getenv("PSI_API_KEY") is set
    psi_cache,                      \* _psi_cache: key -> (result, timestamp)
    in_flight,                      \* _in_flight: url -> Event
    in_flight_results,              \* _in_flight_results: url -> result
    evSet,                          \* the Event objects that are set
    circuit_breaker_failures,       \* _circuit_breaker_failures
    circuit_breaker_tripped_until,  \* _circuit_breaker_tripped_until
    calls,                          \* number of fetch_psi invocations so far
    \* ---- per thread: position in fetch_psi and its locals ----
    pc, key, event, waitStart, result, ret,
    \* ---- per thread: record of what the current call has done ----
    didUpstream,                    \* the call invoked _call_psi
    peers,                          \* calls for the same key in progress on entry
    mustOpen,                       \* breaker check made while an ideal breaker is open
    passedAt,                       \* breaker check made at now >= tripped_until
    storedAtCall,                   \* fresh successful entry of the key when the call was made
    afterFailure,                   \* the call is the next one for its key after a failure result
    \* ---- record of what fetch_psi returned ----
    lastFailed,                     \* keys whose latest finished call returned available = False
    \* ---- record of upstream outcomes ----
    failRun,                        \* consecutive failed upstream calls
    openUntil                       \* failRun reached the threshold: now + reset

varsPsi == <<now, ticks, apiKey, psi_cache, in_flight, in_flight_results, evSet,
             circuit_breaker_failures, circuit_breaker_tripped_until, calls,
             pc, key, event, waitStart, result, ret,
             didUpstream, peers, mustOpen, passedAt, storedAtCall, afterFailure,
             lastFailed, failRun, openUntil>>

varsLedger == <<jobs, apiPc, apiStatus, response, unqueued, queue, deliveries,
                wpc, wjob, wsnap, wexc, crawl_queue, extra_pages, uncrawled>>

VARIABLES
    \* ---- evaluate_rules(data, rules_file) and its caller scan_url ----
    rules,                          \* rules_file.rules
    er_data,                        \* data: the document the expressions are searched in
    er_pc,                          \* position in scan_url / evaluate_rules
    er_idx,                         \* index of the rule the for loop is at
    signals, score_delta, recs,     \* locals of evaluate_rules
    er_matched,                     \* per rule visited: the loop reached "Matched"
    base_signals,                   \* signals scan_url found before the rules engine
    visibility,                     \* result.visibility["score"]
    returned                        \* what scan_url has returned: "" while it runs

varsRules == <<rules, er_data, er_pc, er_idx, signals, score_delta, recs, er_matched,
               base_signals, visibility, returned>>

VARIABLES
    \* ---- orchestrator._compute_scores, one dimension ----
    dim_config,                     \* the dimension's entry of the scoring rules
    sc_data,                        \* the unified data dict
    sc_pc,                          \* position in the dimension loop
    sc_idx,                         \* index of the point-rule the loop is at
    score,                          \* the local score
    \* ---- orchestrator.run_orchestration, up to the scoring ----
    orch_payload,                   \* run_orchestration's request: url and features
    orch_errors,                    \* run_orchestration's errors list
    orch_calls                      \* the external calls run_orchestration has made

varsScores == <<dim_config, sc_data, sc_pc, sc_idx, score, orch_payload, orch_errors,
                orch_calls>>

VARIABLES
    \* ---- scan.py: the per-client rate limiter of scan_url ----
    rate_counters,                  \* _rate_counters: client ip -> admission times kept
    rate_lock,                      \* _rate_lock: whether the asyncio.Lock is marked locked
    rate_time,                      \* time.time()
    rate_ticks,                     \* how often the clock has advanced
    req,                            \* request thread -> its position and locals
    admitted                        \* client ip -> the times of the requests let through

varsRate == <<rate_counters, rate_lock, rate_time, rate_ticks, req, admitted>>

VARIABLES
    \* ---- rules_loader.py: get_rules and the rules files ----
    rules_files,                    \* path -> the file: whether it exists, its st_mtime, its content
    cached_rules,                   \* _cached_rules
    cached_path,                    \* _cached_path
    cached_mtime,                   \* _cached_mtime
    gr,                             \* caller thread -> its position in get_rules and locals
    writes,                         \* number of changes made to the rules files
    loads                           \* number of get_rules calls made

varsLoader == <<rules_files, cached_rules, cached_path, cached_mtime, gr, writes, loads>>

\* the variables of the other components
varsOther == <<varsRules, varsScores, varsRate, varsLoader>>
notPsi == <<varsLedger, varsOther>>
notLedger == <<varsPsi, varsOther>>

vars == <<varsPsi, varsLedger, varsOther>>

(* ---------------- results of fetch_psi ---------------- *)
\* One shape for every dict fetch_psi builds. by and for name the call that
\* built the dict (the calling thread and the key it was called with): dicts
\* built by different calls are different objects.
MkResult(av, reason, error, metrics, retry, t, k) ==
    [available |-> av, reason |-> reason, error |-> error, metrics |-> metrics,
     retry_after_seconds |-> retry, by |-> t, for |-> k]

NoResult == MkResult(FALSE, "none", "", "none", 0, 0, <<"", "">>)
\* line 91
NoApiKeyResult(t, k) == MkResult(FALSE, "no_api_key", "", "none", 0, t, k)
\* lines 99-104
CircuitResult(remaining, t, k) == MkResult(FALSE, "circuit_breaker", "", "none", remaining, t, k)
\* line 160
HttpErrorResult(t, k) == MkResult(FALSE, "", "str(e)+status_code", "none", 0, t, k)
\* line 166: the error text is str(e) of whatever was caught
ErrorResult(exc, t, k) == MkResult(FALSE, "", "str(e)", "none", 0, t, k)
\* lines 197-213
SuccessResult(metrics, t, k) == MkResult(TRUE, "", "", metrics, 0, t, k)

NoEntry == [present |-> FALSE, result |-> NoResult, time |-> 0]
Entry(r, t) == [present |-> TRUE, result |-> r, time |-> t]

(* ---------------- _call_psi under the tenacity retry decorator ---------------- *)
\* What one attempt (requests.get, raise_for_status, resp.json) can end in:
\*   data_full    a JSON object with lighthouseResult.categories / audits
\*   data_sparse  a JSON object with those keys missing
\*   data_bad     valid JSON whose lighthouseResult path is not made of objects
\*   http_error   raise_for_status raises HTTPError
\*   timeout      requests raises Timeout / ConnectionError
\*   value_error  an exception that is no RequestException
AttemptOutcomes == {"data_full", "data_sparse", "data_bad", "http_error", "timeout", "value_error"}

\* retry_if_exception_type((RequestException,))
IsRequestException(o) == o \in {"http_error", "timeout"}

IsData(o) == o \in {"data_full", "data_sparse", "data_bad"}

\* The decorated _call_psi: attempts are made while they raise a
\* RequestException; after stop_after_attempt(3) failed attempts the decorator
\* (reraise is not set) raises RetryError in place of the last exception.
RECURSIVE CallPsiFrom(_, _)
CallPsiFrom(att, i) ==
    IF ~IsRequestException(att[i]) THEN att[i]
    ELSE IF i >= STOP_AFTER_ATTEMPT THEN "RetryError"
    ELSE CallPsiFrom(att, i + 1)

CallPsi(att) == CallPsiFrom(att, 1)

\* every way the decorated call can end, over all sequences of attempt outcomes
CallPsiOutcomes == {CallPsi(att) : att \in [1..STOP_AFTER_ATTEMPT -> AttemptOutcomes]}

\* the exception classes that `except requests.exceptions.HTTPError` catches
IsHTTPError(o) == o = "http_error"

\* lines 171-213: navigating the response with .get; a missing key leaves the
\* metric None, the metric keys are present either way
Normalize(data, t, k) == SuccessResult("present", t, k)

\* data.get / lighthouse.get on a value that is no dict raises AttributeError
NavigationRaises(data) == data = "data_bad"

(* ---------------- guards of fetch_psi ---------------- *)
\* the comparison turned round
CircuitTripped_Mutant == circuit_breaker_tripped_until < now

\* line 96
CircuitTripped == circuit_breaker_tripped_until > now

\* lines 113-114: age = time.time() - cached_time; age < cache_ttl
CacheFresh(k) == now - psi_cache[k].time < PSI_CACHE_TTL_SECONDS

\* Event objects still referenced by the in-flight table or by a running call
Live(inf, ev) == ({inf[u] : u \in Urls} \cup {ev[t] : t \in Threads}) \ {NoEvent}

FreshEvent == CHOOSE e \in EventIds : e \notin Live(in_flight, event)

InCall(t) == pc[t] \notin {"idle", "done", "raised"}

(* ---------------- initial state ---------------- *)
InitPsi ==
    /\ now = 1
    /\ ticks = 0
    /\ apiKey \in BOOLEAN
    /\ psi_cache = [k \in Keys |-> NoEntry]
    /\ in_flight = [u \in Urls |-> NoEvent]
    /\ in_flight_results = [u \in Urls |-> NoResult]
    /\ evSet = {}
    /\ circuit_breaker_failures = 0
    /\ circuit_breaker_tripped_until = 0
    /\ calls = 0
    /\ pc = [t \in Threads |-> "idle"]
    /\ key = [t \in Threads |-> <<"u1", "mobile">>]
    /\ event = [t \in Threads |-> NoEvent]
    /\ waitStart = [t \in Threads |-> 0]
    /\ result = [t \in Threads |-> NoResult]
    /\ ret = [t \in Threads |-> NoResult]
    /\ didUpstream = [t \in Threads |-> FALSE]
    /\ peers = [t \in Threads |-> {}]
    /\ mustOpen = [t \in Threads |-> FALSE]
    /\ passedAt = [t \in Threads |-> FALSE]
    /\ storedAtCall = [t \in Threads |-> NoEntry]
    /\ afterFailure = [t \in Threads |-> FALSE]
    /\ lastFailed = {}
    /\ failRun = 0
    /\ openUntil = 0

\* a row of the scanjob table; state tells whether the row was never created,
\* is in the table, or was deleted
Row(st, url, status, progress, teaser, full, created) ==
    [state |-> st, url |-> url, status |-> status, progress |-> progress,
     teaser_json |-> teaser, full_json |-> full, created_at |-> created]

NoRow == Row("absent", "", "", 0, "none", "none", 0)

NoSnap == [status |-> "", progress |-> 0]
NoJob == 0

InitLedger ==
    /\ jobs = [j \in JobIds |-> NoRow]
    /\ apiPc = [j \in JobIds |-> "none"]
    /\ apiStatus = [j \in JobIds |-> ""]
    /\ response = [j \in JobIds |-> ""]
    /\ unqueued = {}
    /\ queue = {}
    /\ deliveries = [j \in JobIds |-> 0]
    /\ wpc = [w \in Workers |-> "idle"]
    /\ wjob = [w \in Workers |-> NoJob]
    /\ wsnap = [w \in Workers |-> NoSnap]
    /\ wexc = [w \in Workers |-> ""]
    /\ crawl_queue = {}
    /\ extra_pages = {}
    /\ uncrawled = {}

\* no scan_url request is being scored
IdleRules ==
    /\ rules = <<>>
    /\ er_data = [faq_count |-> [t |-> "null", v |-> 0]]
    /\ er_pc = "off"
    /\ er_idx = 1
    /\ signals = <<>>
    /\ score_delta = 0
    /\ recs = <<>>
    /\ er_matched = <<>>
    /\ base_signals = {}
    /\ visibility = 0
    /\ returned = ""

\* _compute_scores is not running
IdleScores ==
    /\ dim_config = [base_score |-> 0, max_score |-> 100, rules |-> <<>>]
    /\ sc_data = [faq_count |-> 0, name |-> FALSE, internal_links |-> 0,
                  performance |-> [t |-> "null", v |-> 0]]
    /\ sc_pc = "off"
    /\ sc_idx = 1
    /\ orch_payload = [url |-> "", use_lighthouse |-> FALSE]
    /\ orch_errors = <<>>
    /\ orch_calls = {}
    /\ score = 0

\* scan.py line 34
rate_window_seconds == 60

\* scan.py line 35, with SCAN_RATE_LIMIT_PER_MIN=2 in the environment
rate_limit_per_min == 2

ReqThreads == 1..MaxThreads
ClientIps == {"ip1", "ip2"}

\* a request thread that has not entered scan_url
IdleReq == [pc |-> "idle", ip |-> "", now |-> 0, hist |-> <<>>, ok |-> FALSE]

\* scan.py lines 34-37: the module's rate-limiter state after import
InitRate ==
    /\ rate_counters = [ip \in ClientIps |-> <<>>]
    /\ rate_lock = FALSE
    /\ rate_time = 0
    /\ rate_ticks = 0
    /\ req = [t \in ReqThreads |-> IdleReq]
    /\ admitted = [ip \in ClientIps |-> <<>>]

\* the callers of get_rules: the scan endpoint and the rules status endpoint
LoaderThreads == {1, 2}
\* the default rules path and an explicitly given one
RulePaths == {"default", "other"}
\* what a rules file can hold: two valid rule sets, or text that RulesFile
\* rejects
RuleContents == {"rulesA", "rulesB", "invalid"}
NoFile == [exists |-> FALSE, mtime |-> 0, content |-> ""]
NoRules == "None"
NoPath == "None"
IdleGr == [pc |-> "idle", p |-> NoPath, mtime |-> 0, out |-> NoRules, how |-> ""]

\* rules_loader.py lines 37-40: nothing is cached after import; the default
\* rules file is deployed with the code
InitLoader ==
    /\ rules_files = [q \in RulePaths |->
                        IF q = "default"
                           THEN [exists |-> TRUE, mtime |-> 1, content |-> "rulesA"]
                           ELSE NoFile]
    /\ cached_rules = NoRules
    /\ cached_path = NoPath
    /\ cached_mtime = 0
    /\ gr = [t \in LoaderThreads |-> IdleGr]
    /\ writes = 0
    /\ loads = 0

Init == InitPsi /\ InitLedger /\ IdleRules /\ IdleScores /\ InitRate /\ InitLoader

(* ---------------- fetch_psi, one action per atomic step ---------------- *)
locals == <<pc, key, event, waitStart, result, ret>>
breaker == <<circuit_breaker_failures, circuit_breaker_tripped_until>>
clock == <<now, ticks>>
outcomes == <<failRun, openUntil>>

\* a call for key k has returned r: the record of the latest result per key
Returned(k, r) == IF r.available THEN lastFailed \ {k} ELSE lastFailed \cup {k}

\* Entry to fetch_psi(url, strategy) with k = (url, strategy), lines 88-104: without an API key the call
\* returns at once; then the breaker is read under _circuit_breaker_lock.
Call(t, k) ==
    /\ ~InCall(t)
    /\ calls < MaxCalls
    /\ calls' = calls + 1
    /\ key' = [key EXCEPT ![t] = k]
    /\ result' = [result EXCEPT ![t] = NoResult]
    /\ IF ~apiKey
          THEN /\ pc' = [pc EXCEPT ![t] = "done"]
               /\ ret' = [ret EXCEPT ![t] = NoApiKeyResult(t, k)]
               /\ lastFailed' = Returned(k, NoApiKeyResult(t, k))
          ELSE IF CircuitTripped
                  THEN /\ pc' = [pc EXCEPT ![t] = "done"]
                       /\ ret' = [ret EXCEPT ![t] =
                                    CircuitResult(circuit_breaker_tripped_until - now, t, k)]
                       /\ lastFailed' = lastFailed \cup {k}
                  ELSE /\ pc' = [pc EXCEPT ![t] = "cache"]
                       /\ ret' = [ret EXCEPT ![t] = NoResult]
                       /\ lastFailed' = lastFailed
    /\ afterFailure' = [afterFailure EXCEPT ![t] =
                          /\ apiKey
                          /\ ~CircuitTripped
                          /\ k \in lastFailed
                          /\ \A o \in Threads \ {t} : ~InCall(o)]
    /\ peers' = [x \in Threads |->
                    IF x = t
                       THEN {o \in Threads \ {t} : InCall(o) /\ key[o] = k}
                       ELSE peers[x] \ {t}]
    /\ didUpstream' = [didUpstream EXCEPT ![t] = FALSE]
    /\ mustOpen' = [mustOpen EXCEPT ![t] = apiKey /\ openUntil > now]
    /\ passedAt' = [passedAt EXCEPT ![t] = apiKey /\ now > circuit_breaker_tripped_until]
    /\ storedAtCall' = [storedAtCall EXCEPT ![t] =
                      IF /\ apiKey
                         /\ ~CircuitTripped
                         /\ psi_cache[k].present
                         /\ psi_cache[k].result.available
                         /\ now - psi_cache[k].time < PSI_CACHE_TTL_SECONDS
                         THEN psi_cache[k]
                         ELSE NoEntry]
    /\ UNCHANGED <<clock, apiKey, psi_cache, in_flight, in_flight_results, evSet,
                   breaker, event, waitStart, outcomes>>

\* Lines 110-119, under _cache_lock.
CheckCache(t) ==
    /\ pc[t] = "cache"
    /\ IF psi_cache[key[t]].present
          THEN IF CacheFresh(key[t])
                  THEN /\ pc' = [pc EXCEPT ![t] = "done"]
                       /\ ret' = [ret EXCEPT ![t] = psi_cache[key[t]].result]
                       /\ psi_cache' = psi_cache
                       /\ lastFailed' = Returned(key[t], psi_cache[key[t]].result)
                  ELSE /\ pc' = [pc EXCEPT ![t] = "inflight"]
                       /\ ret' = ret
                       /\ psi_cache' = [psi_cache EXCEPT ![key[t]] = NoEntry]
                       /\ lastFailed' = lastFailed
          ELSE /\ pc' = [pc EXCEPT ![t] = "inflight"]
               /\ ret' = ret
               /\ psi_cache' = psi_cache
               /\ lastFailed' = lastFailed
    /\ UNCHANGED <<clock, apiKey, in_flight, in_flight_results, evSet, breaker, calls,
                   key, event, waitStart, result,
                   didUpstream, peers, mustOpen, passedAt, storedAtCall, afterFailure,
                   outcomes>>

\* Lines 122-129, under _in_flight_lock: take the registered Event of the url,
\* or register a new one.
CheckInFlight(t) ==
    /\ pc[t] = "inflight"
    /\ IF in_flight[key[t][1]] # NoEvent
          THEN /\ event' = [event EXCEPT ![t] = in_flight[key[t][1]]]
               /\ in_flight' = in_flight
               /\ evSet' = evSet
          ELSE /\ event' = [event EXCEPT ![t] = FreshEvent]
               /\ in_flight' = [in_flight EXCEPT ![key[t][1]] = FreshEvent]
               /\ evSet' = evSet \ {FreshEvent}
    /\ pc' = [pc EXCEPT ![t] = "results"]
    /\ UNCHANGED <<clock, apiKey, psi_cache, in_flight_results, breaker, calls,
                   key, waitStart, result, ret,
                   didUpstream, peers, mustOpen, passedAt, storedAtCall, afterFailure,
                   lastFailed, outcomes>>

\* Line 132: `if url in _in_flight_results` (read without the lock).
CheckResults(t) ==
    /\ pc[t] = "results"
    /\ IF in_flight_results[key[t][1]] # NoResult
          THEN /\ pc' = [pc EXCEPT ![t] = "wait"]
               /\ waitStart' = [waitStart EXCEPT ![t] = now]
          ELSE /\ pc' = [pc EXCEPT ![t] = "call"]
               /\ waitStart' = waitStart
    /\ UNCHANGED <<clock, apiKey, psi_cache, in_flight, in_flight_results, evSet,
                   breaker, calls, key, event, result, ret,
                   didUpstream, peers, mustOpen, passedAt, storedAtCall, afterFailure,
                   lastFailed, outcomes>>

\* line 133: event.wait(timeout=30) has returned once the Event is set or the
\* timeout has passed
WaitOver(t) == event[t] \in evSet \/ now >= waitStart[t] + WAIT_TIMEOUT_SECONDS

\* Lines 133-138: after the wait, under _in_flight_lock, take and delete the
\* stored result of the url; without one, fall through to the primary path.
WaitAndTake(t) ==
    /\ pc[t] = "wait"
    /\ WaitOver(t)
    /\ waitStart' = [waitStart EXCEPT ![t] = 0]
    /\ IF in_flight_results[key[t][1]] # NoResult
          THEN /\ pc' = [pc EXCEPT ![t] = "done"]
               /\ ret' = [ret EXCEPT ![t] = in_flight_results[key[t][1]]]
               /\ in_flight_results' = [in_flight_results EXCEPT ![key[t][1]] = NoResult]
               /\ event' = [event EXCEPT ![t] = NoEvent]
               /\ evSet' = evSet \cap Live(in_flight, [event EXCEPT ![t] = NoEvent])
               /\ lastFailed' = Returned(key[t], in_flight_results[key[t][1]])
          ELSE /\ pc' = [pc EXCEPT ![t] = "call"]
               /\ UNCHANGED <<ret, in_flight_results, event, evSet, lastFailed>>
    /\ UNCHANGED <<clock, apiKey, psi_cache, in_flight, breaker, calls,
                   key, result,
                   didUpstream, peers, mustOpen, passedAt, storedAtCall, afterFailure,
                   outcomes>>

\* Lines 141-216 up to the call of _store_and_notify: the upstream call, the
\* circuit-breaker update of the branch taken, and the result dict.
\*   success (143-147): failures := 0, then the response is navigated (171-213),
\*     which raises out of fetch_psi when the body is not made of dicts;
\*   except HTTPError (149-160): failures += 1, trip at the threshold;
\*   except Exception (164-166): the counter is left alone.
CallUpstream(t) ==
    /\ pc[t] = "call"
    /\ \E o \in CallPsiOutcomes :
         /\ didUpstream' = [didUpstream EXCEPT ![t] = TRUE]
         /\ IF IsData(o)
               THEN /\ circuit_breaker_failures' = 0
                    /\ circuit_breaker_tripped_until' = circuit_breaker_tripped_until
                    /\ failRun' = 0
                    /\ openUntil' = openUntil
                    /\ IF NavigationRaises(o)
                          THEN /\ pc' = [pc EXCEPT ![t] = "raised"]
                               /\ lastFailed' = lastFailed \ {key[t]}
                               /\ result' = result
                               /\ event' = [event EXCEPT ![t] = NoEvent]
                               /\ evSet' = evSet \cap Live(in_flight, [event EXCEPT ![t] = NoEvent])
                          ELSE /\ pc' = [pc EXCEPT ![t] = "store"]
                               /\ result' = [result EXCEPT ![t] = Normalize(o, t, key[t])]
                               /\ UNCHANGED <<event, evSet, lastFailed>>
               ELSE /\ IF IsHTTPError(o)
                          THEN /\ circuit_breaker_failures' = circuit_breaker_failures + 1
                               /\ circuit_breaker_tripped_until' =
                                     IF circuit_breaker_failures + 1 >= CIRCUIT_BREAKER_THRESHOLD
                                        THEN now + CIRCUIT_BREAKER_RESET_SECONDS
                                        ELSE circuit_breaker_tripped_until
                               /\ result' = [result EXCEPT ![t] = HttpErrorResult(t, key[t])]
                          ELSE /\ UNCHANGED breaker
                               /\ result' = [result EXCEPT ![t] = ErrorResult(o, t, key[t])]
                    /\ failRun' = IF failRun < CIRCUIT_BREAKER_THRESHOLD THEN failRun + 1 ELSE failRun
                    /\ openUntil' = IF failRun + 1 >= CIRCUIT_BREAKER_THRESHOLD
                                       THEN now + CIRCUIT_BREAKER_RESET_SECONDS
                                       ELSE openUntil
                    /\ pc' = [pc EXCEPT ![t] = "store"]
                    /\ UNCHANGED <<event, evSet, lastFailed>>
    /\ UNCHANGED <<clock, apiKey, psi_cache, in_flight, in_flight_results, calls,
                   key, waitStart, ret, peers, mustOpen, passedAt, storedAtCall,
                   afterFailure>>

\* _store_and_notify (lines 219-230) and the return of fetch_psi: the entry is
\* written under _cache_lock, the result is published and the url's in-flight
\* entry deleted under _in_flight_lock, then the caller's Event is set.
StoreAndNotify(t) ==
    /\ pc[t] = "store"
    /\ psi_cache' = [psi_cache EXCEPT ![key[t]] = Entry(result[t], now)]
    /\ in_flight_results' = [in_flight_results EXCEPT ![key[t][1]] = result[t]]
    /\ in_flight' = [in_flight EXCEPT ![key[t][1]] = NoEvent]
    /\ evSet' = (evSet \cup {event[t]})
                   \cap Live([in_flight EXCEPT ![key[t][1]] = NoEvent],
                             [event EXCEPT ![t] = NoEvent])
    /\ event' = [event EXCEPT ![t] = NoEvent]
    /\ ret' = [ret EXCEPT ![t] = result[t]]
    /\ lastFailed' = Returned(key[t], result[t])
    /\ pc' = [pc EXCEPT ![t] = "done"]
    /\ UNCHANGED <<clock, apiKey, breaker, calls, key, waitStart, result,
                   didUpstream, peers, mustOpen, passedAt, storedAtCall, afterFailure,
                   outcomes>>

\* The clock advances.
Tick(d) ==
    /\ ticks' = ticks + 1
    /\ now' = now + d
    /\ UNCHANGED <<apiKey, psi_cache, in_flight, in_flight_results, evSet, breaker, calls,
                   locals, didUpstream, peers, mustOpen, passedAt, storedAtCall, afterFailure,
                   lastFailed, outcomes>>

NextPsi ==
    \/ \E t \in Threads, k \in Keys : Call(t, k) /\ UNCHANGED notPsi
    \/ \E t \in Threads : CheckCache(t) /\ UNCHANGED notPsi
    \/ \E t \in Threads : CheckInFlight(t) /\ UNCHANGED notPsi
    \/ \E t \in Threads : CheckResults(t) /\ UNCHANGED notPsi
    \/ \E t \in Threads : WaitAndTake(t) /\ UNCHANGED notPsi
    \/ \E t \in Threads : CallUpstream(t) /\ UNCHANGED notPsi
    \/ \E t \in Threads : StoreAndNotify(t) /\ UNCHANGED notPsi
    \/ \E d \in TickSteps : Tick(d) /\ ticks < MaxTicks /\ UNCHANGED notPsi

SpecPsi == Init /\ [][NextPsi]_vars

(* ======================= claims about fetch_psi ======================= *)

\* C1: when several callers invoke fetch_psi concurrently for the same key,
\* exactly one upstream call is made for all of them and all of them return
\* the same result.  Stated for every pair of calls for one key of which one
\* entered while the other was in progress.
C1_SingleFlight ==
    \A t1 \in Threads, t2 \in Threads :
        (t1 # t2 /\ t1 \in peers[t2] /\ key[t1] = key[t2]) =>
            /\ ~(didUpstream[t1] /\ didUpstream[t2])
            /\ (pc[t1] = "done" /\ pc[t2] = "done") => ret[t1] = ret[t2]

\* C2: after CIRCUIT_BREAKER_THRESHOLD consecutive failed upstream calls, a
\* fetch_psi call made within CIRCUIT_BREAKER_RESET_SECONDS of the failure that
\* reached the threshold is answered with the circuit-breaker result and makes
\* no upstream call.
C2_BreakerOpens ==
    \A t \in Threads :
        mustOpen[t] =>
            /\ pc[t] = "done"
            /\ ret[t].available = FALSE
            /\ ret[t].reason = "circuit_breaker"
            /\ ~didUpstream[t]

\* C3: once a successful result is stored for a key, a call for that key made
\* while the entry is younger than PSI_CACHE_TTL_SECONDS (API key present,
\* breaker not tripped) makes no upstream call and returns exactly the result
\* that was stored when the call was made.
C3_CacheHit ==
    \A t \in Threads :
        (storedAtCall[t].present /\ now - storedAtCall[t].time < PSI_CACHE_TTL_SECONDS) =>
            /\ ~didUpstream[t]
            /\ pc[t] = "done" => ret[t] = storedAtCall[t].result

C9_NeverRaises ==
    \A t \in Threads :
        /\ pc[t] # "raised"
        /\ pc[t] = "done" =>
              IF ret[t].available
                 THEN ret[t].metrics = "present"
                 ELSE ret[t].reason # "" \/ ret[t].error # ""

\* C23: failures are not kept in the TTL cache: a call for a key whose latest
\* finished call returned a failure result, made while the breaker is not
\* tripped and no call is in progress, does not return without an upstream
\* attempt of its own.
C23_FailureNotCached ==
    \A t \in Threads :
        (afterFailure[t] /\ pc[t] = "done") => didUpstream[t]

\* C24: a caller that has joined the flight of a leader which is fetching the
\* same key makes no upstream call of its own: it waits, and when its wait ends
\* while the leader is still fetching it returns a result that is not available.
C24_WaiterDegrades ==
    [][\A t \in Threads, o \in Threads :
         ( /\ t # o
           /\ key[t] = key[o]
           /\ event[t] # NoEvent
           /\ event[t] = event[o]
           /\ pc[o] = "call"
           /\ pc[t] \in {"results", "wait"} )
            => /\ pc'[t] # "call"
               /\ pc'[t] = "done" => ~ret'[t].available]_vars

\* C27: whenever no fetch_psi call is in progress, the in-flight table and the
\* in-flight results table hold no entry.
C27_InFlightCleanedUp ==
    (\A t \in Threads : ~InCall(t)) =>
        /\ \A u \in Urls : in_flight[u] = NoEvent
        /\ \A u \in Urls : in_flight_results[u] = NoResult

\* C28: a result that fetch_psi returns was obtained for the key of the call,
\* and it comes from the call itself, from a cache entry of the key younger
\* than the TTL, or from a call for the key that was in progress when the
\* caller arrived.
C28_Provenance ==
    [][\A t \in Threads :
         (pc[t] # "done" /\ pc'[t] = "done") =>
            /\ ret'[t].for = key'[t]
            /\ \/ ret'[t].by = t /\ (didUpstream'[t] \/ ret'[t].reason # "")
               \/ /\ psi_cache[key'[t]].present
                  /\ ret'[t] = psi_cache[key'[t]].result
                  /\ now - psi_cache[key'[t]].time < PSI_CACHE_TTL_SECONDS
               \/ ret'[t].by \in peers'[t]]_vars

Exists(j) == jobs[j].state = "row"

\* the row created with another status
NewJobRow_Mutant(kind, t) == Row("row", kind, "queued", 0, "none", "none", t)

\* scan_jobs.py lines 47-54: the row start_scan adds.  start_scan does not set
\* created_at; the ScanJob model fills it in, taken here as the time of creation
\* (the job's created timestamp).
NewJobRow(kind, t) == Row("row", kind, "pending", 0, "none", "none", t)

\* worker.py lines 215-217
BlockedRow(row) ==
    [row EXCEPT !.status = "failed", !.progress = 100, !.full_json = "error_blocked"]

\* worker.py lines 230-233: the first commit of the session writes the columns
\* whose new value differs from the value db.get loaded
CrawlRow(row, snap) ==
    [row EXCEPT !.status = IF snap.status = "processing" THEN @ ELSE "processing",
                !.progress = IF snap.progress = 5 THEN @ ELSE 5]

\* worker.py lines 240-241, 344-345, 353-354, 358-359: job.progress = p; db.commit()
ProgressRow(row, p) == [row EXCEPT !.progress = p]

\* worker.py lines 363-429
DoneRow(row) ==
    [row EXCEPT !.teaser_json = "teaser", !.full_json = "result",
                !.status = "done", !.progress = 100]

\* worker.py lines 442-446: job.full_json = job.full_json or {"error": str(e)}
FailedRow(row) ==
    [row EXCEPT !.status = "failed", !.progress = 100,
                !.full_json = IF @ = "none" THEN "error_exc" ELSE @]

\* worker.py lines 468: session.delete(job)
DeletedRow(row) == Row("deleted", row.url, "", 0, "none", "none", 0)

\* worker.py lines 461-464
Expired(row) == row.created_at < now - SCAN_JOB_TTL_SECONDS

workerLocals == <<wpc, wjob, wsnap, wexc>>
api == <<apiPc, apiStatus, response, unqueued>>
followUp == <<crawl_queue, extra_pages, uncrawled>>

\* process_scan_job returns or raises: its locals are gone and the worker is
\* free for the next request.
Return(w) ==
    /\ wpc' = [wpc EXCEPT ![w] = "idle"]
    /\ wjob' = [wjob EXCEPT ![w] = NoJob]
    /\ wsnap' = [wsnap EXCEPT ![w] = NoSnap]
    /\ wexc' = [wexc EXCEPT ![w] = ""]

\* start_scan lines 47-57: the row is added and committed, then refreshed.
StartScanCommit(j, kind) ==
    /\ apiPc[j] = "none"
    /\ \A i \in JobIds : i < j => apiPc[i] # "none"
    /\ jobs' = [jobs EXCEPT ![j] = NewJobRow(kind, now)]
    /\ apiStatus' = [apiStatus EXCEPT ![j] = NewJobRow(kind, now).status]
    /\ apiPc' = [apiPc EXCEPT ![j] = "committed"]
    /\ UNCHANGED <<followUp, response, unqueued, queue, deliveries, workerLocals>>

\* start_scan lines 46-57 and 74-76: creating the row raises (the database is
\* not reachable); nothing is committed and the request is answered with 500.
StartScanFail(j) ==
    /\ apiPc[j] = "none"
    /\ \A i \in JobIds : i < j => apiPc[i] # "none"
    /\ apiPc' = [apiPc EXCEPT ![j] = "error"]
    /\ response' = [response EXCEPT ![j] = "http_500"]
    /\ UNCHANGED <<followUp, jobs, apiStatus, unqueued, queue, deliveries, workerLocals>>

\* an enqueue error that is not caught: the request ends with 500
StartScanEnqueue_Mutant(j) ==
    /\ apiPc[j] = "committed"
    /\ \E ok \in BOOLEAN :
          /\ queue' = IF ok THEN queue \cup {j} ELSE queue
          /\ unqueued' = IF ok THEN unqueued ELSE unqueued \cup {j}
          /\ response' = [response EXCEPT ![j] = IF ok THEN apiStatus[j] ELSE "http_500"]
    /\ apiPc' = [apiPc EXCEPT ![j] = "returned"]
    /\ UNCHANGED <<followUp, jobs, apiStatus, deliveries, workerLocals>>

\* start_scan lines 60-73: the request is enqueued, or the enqueue raises and
\* is logged; either way the response is returned.
StartScanEnqueue(j) ==
    /\ apiPc[j] = "committed"
    /\ \E ok \in BOOLEAN :
          /\ queue' = IF ok THEN queue \cup {j} ELSE queue
          /\ unqueued' = IF ok THEN unqueued ELSE unqueued \cup {j}
    /\ response' = [response EXCEPT ![j] = apiStatus[j]]
    /\ apiPc' = [apiPc EXCEPT ![j] = "returned"]
    /\ UNCHANGED <<followUp, jobs, apiStatus, deliveries, workerLocals>>

\* The queue hands a request to an idle worker: process_scan_job starts and
\* validates the url (lines 204-210).
Deliver(w, j) ==
    /\ wpc[w] = "idle"
    /\ j \in queue
    /\ queue' = queue \ {j}
    /\ deliveries' = [deliveries EXCEPT ![j] = @ + 1]
    /\ wjob' = [wjob EXCEPT ![w] = j]
    /\ wsnap' = [wsnap EXCEPT ![w] = NoSnap]
    /\ wpc' = [wpc EXCEPT ![w] = IF jobs[j].url = "blocked" THEN "ssrf" ELSE "get"]
    /\ UNCHANGED <<followUp, jobs, api, wexc>>

\* At-least-once delivery: a request that was handed out is queued again.
Redeliver(j) ==
    /\ j \notin queue
    /\ deliveries[j] >= 1
    /\ deliveries[j] < MaxDeliveries
    /\ queue' = queue \cup {j}
    /\ UNCHANGED <<followUp, jobs, api, deliveries, workerLocals>>

\* Lines 211-220: the SSRF failure is written to the row, if there is one.
SsrfFail(w) ==
    /\ wpc[w] = "ssrf"
    /\ jobs' = IF Exists(wjob[w])
                  THEN [jobs EXCEPT ![wjob[w]] = BlockedRow(@)]
                  ELSE jobs
    /\ Return(w)
    /\ UNCHANGED <<followUp, api, queue, deliveries>>

\* Lines 223-226: db.get loads the row; without one the job is "gone".
Load(w) ==
    /\ wpc[w] = "get"
    /\ IF Exists(wjob[w])
          THEN /\ wsnap' = [wsnap EXCEPT ![w] = [status |-> jobs[wjob[w]].status,
                                                 progress |-> jobs[wjob[w]].progress]]
               /\ wpc' = [wpc EXCEPT ![w] = "crawl"]
               /\ UNCHANGED <<wjob, wexc>>
          ELSE Return(w)
    /\ UNCHANGED <<followUp, jobs, api, queue, deliveries>>

\* Lines 230-233.  An UPDATE of a row that was deleted meanwhile raises, which
\* leads to the handler; with nothing to write no UPDATE is sent.
CrawlCommit(w) ==
    /\ wpc[w] = "crawl"
    /\ IF Exists(wjob[w])
          THEN /\ jobs' = [jobs EXCEPT ![wjob[w]] = CrawlRow(@, wsnap[w])]
               /\ wpc' = [wpc EXCEPT ![w] = "fetch"]
               /\ wexc' = wexc
          ELSE /\ jobs' = jobs
               /\ IF wsnap[w] = [status |-> "processing", progress |-> 5]
                     THEN /\ wpc' = [wpc EXCEPT ![w] = "fetch"]
                          /\ wexc' = wexc
                     ELSE /\ wpc' = [wpc EXCEPT ![w] = "handler"]
                          /\ wexc' = [wexc EXCEPT ![w] = "commit"]
    /\ wsnap' = [wsnap EXCEPT ![w] = NoSnap]
    /\ UNCHANGED <<followUp, api, queue, deliveries, wjob>>

\* A stage of the try block followed by the commit of the next checkpoint:
\* the stage raises (to the handler), or progress p is committed; the commit
\* raises when the row is gone.
StageThenCommit(w, from, to, p, mayRaise) ==
    /\ wpc[w] = from
    /\ \E ok \in (IF mayRaise THEN BOOLEAN ELSE {TRUE}) :
         IF ok /\ Exists(wjob[w])
            THEN /\ jobs' = [jobs EXCEPT ![wjob[w]] = ProgressRow(@, p)]
                 /\ wpc' = [wpc EXCEPT ![w] = to]
                 /\ wexc' = wexc
            ELSE /\ jobs' = jobs
                 /\ wpc' = [wpc EXCEPT ![w] = "handler"]
                 /\ wexc' = [wexc EXCEPT ![w] = IF ok THEN "commit" ELSE from]
    /\ UNCHANGED <<followUp, api, queue, deliveries, wjob, wsnap>>

\* Lines 235-241: fetch_html, then progress 20.
FetchHtml(w) == StageThenCommit(w, "fetch", "parse", 20, TRUE)

\* Lines 243-345: trafilatura / BeautifulSoup / extruct parsing (the first two
\* are not guarded), then progress 55.
Parse(w) == StageThenCommit(w, "parse", "psi", 55, TRUE)

\* Lines 346-354: fetch_psi inside try/except, then progress 70.
Psi(w) == StageThenCommit(w, "psi", "keybert", 70, FALSE)

\* Lines 355-359: keyphrases = [], then progress 85.
Keybert(w) == StageThenCommit(w, "keybert", "persist", 85, FALSE)

\* Lines 360-429: teaser, full result, status done and progress 100 in one
\* commit.
Persist(w) ==
    /\ wpc[w] = "persist"
    /\ IF Exists(wjob[w])
          THEN /\ jobs' = [jobs EXCEPT ![wjob[w]] = DoneRow(@)]
               /\ wpc' = [wpc EXCEPT ![w] = "followup"]
               /\ UNCHANGED <<wjob, wsnap, wexc>>
          ELSE /\ jobs' = jobs
               /\ wpc' = [wpc EXCEPT ![w] = "handler"]
               /\ wexc' = [wexc EXCEPT ![w] = "commit"]
               /\ UNCHANGED <<wjob, wsnap>>
    /\ UNCHANGED <<followUp, api, queue, deliveries>>

\* a failed follow-up enqueue that reaches the except branch of the pipeline
FollowUp_Mutant(w) ==
    /\ wpc[w] = "followup"
    /\ \E enabled \in BOOLEAN, ok \in BOOLEAN :
          /\ crawl_queue' = IF enabled /\ ok THEN crawl_queue \cup {wjob[w]} ELSE crawl_queue
          /\ uncrawled' = IF enabled /\ ~ok THEN uncrawled \cup {wjob[w]} ELSE uncrawled
          /\ IF enabled /\ ~ok
                THEN /\ wpc' = [wpc EXCEPT ![w] = "handler"]
                     /\ wexc' = [wexc EXCEPT ![w] = "followup"]
                     /\ UNCHANGED <<wjob, wsnap>>
                ELSE Return(w)
    /\ UNCHANGED <<jobs, api, queue, deliveries, extra_pages>>

\* Lines 431-440: with SCAN_SHALLOW_CRAWL set, process_shallow_crawl is enqueued
\* for the job; an exception of get_queue or enqueue is passed over.  The
\* function returns.
FollowUp(w) ==
    /\ wpc[w] = "followup"
    /\ \E enabled \in BOOLEAN, ok \in BOOLEAN :
          /\ crawl_queue' = IF enabled /\ ok THEN crawl_queue \cup {wjob[w]} ELSE crawl_queue
          /\ uncrawled' = IF enabled /\ ~ok THEN uncrawled \cup {wjob[w]} ELSE uncrawled
    /\ Return(w)
    /\ UNCHANGED <<jobs, api, queue, deliveries, extra_pages>>

\* process_shallow_crawl, lines 565-679: the pages are crawled, then one session
\* loads the row ("gone" without one) and commits the pages, as job.extra_pages
\* or else under full_json["extra_pages"]; no other column is assigned.  The
\* full_json of a row that went through line 428 is a result or an error
\* diagnostic and stays one with the extra key.
ShallowCrawl(j) ==
    /\ j \in crawl_queue
    /\ crawl_queue' = crawl_queue \ {j}
    /\ extra_pages' = IF Exists(j) THEN extra_pages \cup {j} ELSE extra_pages
    /\ jobs' = jobs
    /\ UNCHANGED <<api, queue, deliveries, workerLocals, uncrawled>>

\* Lines 441-447: the except branch of the pipeline.  Reading job.full_json of
\* a deleted row raises out of the function.
Handler(w) ==
    /\ wpc[w] = "handler"
    /\ jobs' = IF Exists(wjob[w])
                  THEN [jobs EXCEPT ![wjob[w]] = FailedRow(@)]
                  ELSE jobs
    /\ Return(w)
    /\ UNCHANGED <<followUp, api, queue, deliveries>>

\* cleanup_expired_jobs, lines 450-472.
Cleanup ==
    /\ \E j \in JobIds : Exists(j) /\ Expired(jobs[j])
    /\ jobs' = [j \in JobIds |->
                  IF Exists(j) /\ Expired(jobs[j]) THEN DeletedRow(jobs[j]) ELSE jobs[j]]
    /\ extra_pages' = {j \in extra_pages : ~Expired(jobs[j])}
    /\ UNCHANGED <<crawl_queue, uncrawled, api, queue, deliveries, workerLocals>>

NextLedger ==
    \/ \E j \in JobIds, kind \in UrlKinds : StartScanCommit(j, kind) /\ UNCHANGED notLedger
    \/ \E j \in JobIds : StartScanFail(j) /\ UNCHANGED notLedger
    \/ \E j \in JobIds : StartScanEnqueue(j) /\ UNCHANGED notLedger
    \/ \E w \in Workers, j \in JobIds : Deliver(w, j) /\ UNCHANGED notLedger
    \/ \E j \in JobIds : Redeliver(j) /\ UNCHANGED notLedger
    \/ \E w \in Workers : SsrfFail(w) /\ UNCHANGED notLedger
    \/ \E w \in Workers : Load(w) /\ UNCHANGED notLedger
    \/ \E w \in Workers : CrawlCommit(w) /\ UNCHANGED notLedger
    \/ \E w \in Workers : FetchHtml(w) /\ UNCHANGED notLedger
    \/ \E w \in Workers : Parse(w) /\ UNCHANGED notLedger
    \/ \E w \in Workers : Psi(w) /\ UNCHANGED notLedger
    \/ \E w \in Workers : Keybert(w) /\ UNCHANGED notLedger
    \/ \E w \in Workers : Persist(w) /\ UNCHANGED notLedger
    \/ \E w \in Workers : FollowUp(w) /\ UNCHANGED notLedger
    \/ \E j \in JobIds : ShallowCrawl(j) /\ UNCHANGED notLedger
    \/ \E w \in Workers : Handler(w) /\ UNCHANGED notLedger
    \/ Cleanup /\ UNCHANGED notLedger
    \/ \E d \in LedgerTickSteps : Tick(d) /\ ticks < MaxLedgerTicks /\ UNCHANGED notPsi

SpecLedger == Init /\ [][NextLedger]_vars

(* ======================= claims about the job ledger ======================= *)
Terminal(st) == st \in {"done", "failed"}

\* C4: progress is monotone: the progress stored for a job never decreases
\* while the job's status is pending or processing, whichever executions of
\* process_scan_job write to the row.
C4_ProgressMonotone ==
    [][\A j \in JobIds :
         (Exists(j) /\ jobs'[j].state = "row" /\ ~Terminal(jobs[j].status))
            => jobs'[j].progress >= jobs[j].progress]_vars

\* C5: terminal statuses are absorbing: once a job is done or failed no later
\* operation changes its status or its progress.
C5_TerminalAbsorbing ==
    [][\A j \in JobIds :
         (Exists(j) /\ jobs'[j].state = "row" /\ Terminal(jobs[j].status))
            => (jobs'[j].status = jobs[j].status /\ jobs'[j].progress = jobs[j].progress)]_vars

\* C6: every change of a job's status is one of pending -> processing,
\* processing -> done, processing -> failed.
C6_StatusGraph ==
    [][\A j \in JobIds :
         (Exists(j) /\ jobs'[j].state = "row" /\ jobs'[j].status # jobs[j].status)
            => <<jobs[j].status, jobs'[j].status>> \in
                  {<<"pending", "processing">>, <<"processing", "done">>,
                   <<"processing", "failed">>}]_vars

\* C7: in every ledger state a job's full result is populated if and only if
\* its status is done or failed.
C7_FullIffTerminal ==
    \A j \in JobIds :
        Exists(j) => (jobs[j].full_json # "none" <=> Terminal(jobs[j].status))

GetFull(row) ==
    IF row.state # "row" THEN [code |-> 404, body |-> "none"]
    ELSE IF row.status # "done" \/ row.full_json = "none"
            THEN [code |-> 425, body |-> "none"]
            ELSE [code |-> 200, body |-> row.full_json]

\* scan_jobs.py lines 84-95: the external status of a stored status
ExternalStatus(raw) ==
    CASE raw \in {"queued", "pending", "idle", "teaser_ready"} -> "pending"
      [] raw \in {"running", "processing", "crawl", "parse", "analyze", "generate"} -> "processing"
      [] raw \in {"done", "full_ready"} -> "done"
      [] raw \in {"failed", "error"} -> "failed"
      [] OTHER -> "pending"

\* worker.py lines 217 and 444: the "error" entry of a stored full result;
\* "error_blocked" is the fixed text of line 217, "error_exc" is str(e) of the
\* exception the handler caught, and a full result has no such entry
ErrorOf(full) == IF full \in {"error_blocked", "error_exc"} THEN full ELSE "none"

\* scan_jobs.py lines 79-121: get_status, as a function of the row db.get reads
GetStatus(row) ==
    IF row.state # "row" THEN [code |-> 404, status |-> "", error |-> "none", progress |-> 0]
    ELSE [code |-> 200, status |-> ExternalStatus(row.status),
          error |-> ErrorOf(row.full_json), progress |-> row.progress]

\* the diagnostics whose text is fixed in the code (worker.py line 217)
FixedDiagnostics == {"error_blocked"}

\* C15: get_full answers "not ready" exactly for the jobs whose status is
\* pending or processing; it returns no data for those and returns the stored
\* full result for a job that is done or failed.
C15_GetFull ==
    \A j \in JobIds :
        Exists(j) =>
            /\ GetFull(jobs[j]).code = 425 <=> ~Terminal(jobs[j].status)
            /\ ~Terminal(jobs[j].status) => GetFull(jobs[j]).body = "none"
            /\ Terminal(jobs[j].status) => GetFull(jobs[j]).body = jobs[j].full_json

\* C16: a failure in the parse stage, the PSI stage or the keyphrase stage
\* never takes process_scan_job to its failure handler: from these stages a
\* job whose row exists goes on towards done.
C16_NonFatalStages ==
    [][\A w \in Workers :
         (wpc[w] \in {"parse", "psi", "keybert"} /\ Exists(wjob[w]))
            => wpc'[w] # "handler"]_vars

\* C17: the error stored for a failed job, and reported by get_status, is one
\* of the fixed diagnostic strings, never the text of an exception.
C17_FixedDiagnostics ==
    \A j \in JobIds :
        (Exists(j) /\ jobs[j].status = "failed") =>
            /\ ErrorOf(jobs[j].full_json) \in FixedDiagnostics
            /\ GetStatus(jobs[j]).error \in FixedDiagnostics

\* C20: a job whose enqueue failed in start_scan still gets its response with
\* status pending, is never handed to a worker, and its row stays pending with
\* progress 0 and no results for as long as it is in the table.
C20_EnqueueFailure ==
    \A j \in unqueued :
        /\ apiPc[j] = "returned"
        /\ response[j] = "pending"
        /\ j \notin queue
        /\ deliveries[j] = 0
        /\ \A w \in Workers : wjob[w] # j
        /\ Exists(j) =>
              /\ jobs[j].status = "pending"
              /\ jobs[j].progress = 0
              /\ jobs[j].teaser_json = "none"
              /\ jobs[j].full_json = "none"
              /\ GetStatus(jobs[j]).status = "pending"

C20_Witness ==
    \E j \in unqueued, i \in JobIds :
        /\ ticks > 0
        /\ Exists(j)
        /\ jobs[j].status = "pending"
        /\ jobs[j].progress = 0
        /\ Exists(i)
        /\ jobs[i].status = "done"

\* C21: when the url validation or the html fetch of an execution fails, the
\* execution runs no later stage: its next step writes status failed, progress
\* 100 and a full result with an error diagnostic to the job's row and returns.
C21_FetchIsFatal ==
    [][\A w \in Workers :
         /\ (wpc[w] = "fetch" /\ wexc'[w] = "fetch") => wpc'[w] = "handler"
         /\ ( /\ wpc[w] = "ssrf" \/ (wpc[w] = "handler" /\ wexc[w] = "fetch")
              /\ wpc'[w] # wpc[w]
              /\ Exists(wjob[w]) )
            => /\ wpc'[w] = "idle"
               /\ jobs'[wjob[w]].status = "failed"
               /\ jobs'[wjob[w]].progress = 100
               /\ ErrorOf(jobs'[wjob[w]].full_json) # "none"]_vars

\* C26: the follow-up crawl does not touch the completion of the primary job.
\* process_scan_job reaches the dispatch only by the commit of done / 100, the
\* crawl is queued only from there, the dispatch (whether the enqueue works or
\* raises) returns without writing the row, and process_shallow_crawl changes
\* no job's status or progress.
C26_FollowUpFrame ==
    [][/\ \A w \in Workers :
            /\ (wpc'[w] = "followup" /\ wpc[w] # "followup")
                 => /\ jobs'[wjob'[w]].status = "done"
                    /\ jobs'[wjob'[w]].progress = 100
            /\ (wpc[w] = "followup" /\ wpc'[w] # "followup")
                 => /\ wpc'[w] = "idle"
                    /\ jobs' = jobs
        /\ \A j \in JobIds :
            /\ (j \in crawl_queue' \ crawl_queue \/ j \in uncrawled' \ uncrawled)
                 => \E v \in Workers : wpc[v] = "followup" /\ wjob[v] = j
            /\ (j \in crawl_queue \ crawl_queue')
                 => /\ jobs'[j].status = jobs[j].status
                    /\ jobs'[j].progress = jobs[j].progress]_vars

\* one job's crawl has stored its pages and another job's follow-up enqueue
\* raised; both jobs are done
C26_Witness ==
    \E j, k \in JobIds :
        /\ j \in extra_pages /\ jobs[j].status = "done" /\ jobs[j].progress = 100
        /\ k \in uncrawled /\ k \notin crawl_queue /\ k \notin extra_pages
        /\ jobs[k].status = "done" /\ jobs[k].progress = 100
        /\ \A w \in Workers : wpc[w] = "idle"

(* ============ the rules engine: evaluate_rules and scan_url's score ============ *)
\* values a JMESPath search returns: null, a number, a boolean
NullV == [t |-> "null", v |-> 0]
NumV(n) == [t |-> "num", v |-> n]
BoolV(b) == [t |-> "bool", v |-> IF b THEN 1 ELSE 0]
\* jmespath.search raised (ParseError and the like)
RaisedV == [t |-> "raised", v |-> 0]

\* check_engine.py lines 21-22: bool(value)
Truthy(val) == val.t \in {"num", "bool"} /\ val.v # 0

\* jmespath.search(expr, data) for the expressions used here.  A number literal
\* of JMESPath is written between backquotes (shown as ~ here); a bare 0 is a
\* parse error.  An ordering comparison with null yields null.
JmesSearch(expr, d) ==
    CASE expr = "faq_count > 0" -> RaisedV
      [] expr = "faq_count > ~0~" ->
            IF d.faq_count.t = "num" THEN BoolV(d.faq_count.v > 0) ELSE NullV
      [] expr = "faq_count" -> d.faq_count
      [] OTHER -> NullV

\* lines 85-88 and 100-103: try: val = jmespath.search(...) except: val = None
SearchOrNone(expr, d) ==
    IF JmesSearch(expr, d) = RaisedV THEN NullV ELSE JmesSearch(expr, d)

\* lines 83-91: the loop over when, left at the first falsy expression
RECURSIVE AllWhen(_, _, _)
AllWhen(when, i, d) ==
    IF i > Len(when) THEN TRUE
    ELSE IF ~Truthy(SearchOrNone(when[i], d)) THEN FALSE
    ELSE AllWhen(when, i + 1, d)

\* an unless loop that never skips
RECURSIVE AnyUnless_Mutant(_, _, _)
AnyUnless_Mutant(unless, i, d) == FALSE

\* lines 98-106: the loop over unless, left at the first truthy expression
RECURSIVE AnyUnless(_, _, _)
AnyUnless(unless, i, d) ==
    IF i > Len(unless) THEN FALSE
    ELSE IF Truthy(SearchOrNone(unless[i], d)) THEN TRUE
    ELSE AnyUnless(unless, i + 1, d)

\* lines 82-110: the rule reaches "Matched".  if unless: is false for None
\* and for an empty list.
RuleMatched(r, d) ==
    /\ AllWhen(r.when, 1, d)
    /\ ~(r.unless_given /\ Len(r.unless) > 0 /\ AnyUnless(r.unless, 1, d))

MkRule(id, when, given, unless, impact) ==
    [id |-> id, title |-> id, when |-> when, unless_given |-> given,
     unless |-> unless, score_impact |-> impact]

\* the rules the rules file is made of
RulePool ==
    { MkRule("r1", <<"faq_count > 0">>, FALSE, <<>>, 5),
      MkRule("r2", <<>>, FALSE, <<>>, 10),
      MkRule("r3", <<>>, TRUE, <<"faq_count">>, -10),
      MkRule("r4", <<"faq_count > ~0~">>, TRUE, <<>>, 10),
      MkRule("r5", <<"faq_count", "missing">>, FALSE, <<>>, 5),
      MkRule("r6", <<"faq_count">>, TRUE, <<"missing", "faq_count > ~0~">>, -10),
      MkRule("r7", <<"faq_count">>, TRUE, <<"faq_count > 0">>, 5) }

RuleLists == UNION {[1..n -> RulePool] : n \in 0..MaxRules}

\* the documents: faq_count absent, 0 or 3
Documents == {[faq_count |-> x] : x \in {NullV, NumV(0), NumV(3)}}

\* lines 113-122
Recommendation(r) == [rule_id |-> r.id, title |-> r.title]

\* scan.py lines 505-545: what scan_url may have found before the rules engine
BaseSignalSets ==
    { {},
      {"Good performance", "Good SEO"},
      {"Good performance", "Good SEO", "LocalBusiness schema present",
       "FAQ schema present", "Good LCP"} }

\* scan.py lines 547-550 and 586-589
Cap(x) == IF x > 100 THEN 100 ELSE IF x < 0 THEN 0 ELSE x

\* scan.py lines 507-552: 50, plus 10 per signal, capped
BaseScore(sigs) == Cap(50 + 10 * Cardinality(sigs))

\* the delta taken as it comes
ClampDelta_Mutant(d) == d

\* scan.py lines 579-583
ClampDelta(d) == IF d > 30 THEN 30 ELSE IF d < -30 THEN -30 ELSE d

\* scan_url has computed result.visibility and is about to call the rules engine
InitRules ==
    /\ rules \in RuleLists
    /\ er_data \in Documents
    /\ er_pc = "loop"
    /\ er_idx = 1
    /\ signals = <<>>
    /\ score_delta = 0
    /\ recs = <<>>
    /\ er_matched = <<>>
    /\ base_signals \in BaseSignalSets
    /\ visibility = BaseScore(base_signals)
    /\ returned = ""

\* check_engine.py lines 59-122: one iteration of for r in rules
EvaluateRule ==
    /\ er_pc = "loop"
    /\ er_idx <= Len(rules)
    /\ LET r == rules[er_idx]
           m == RuleMatched(r, er_data)
       IN  /\ er_matched' = Append(er_matched, m)
           /\ signals' = IF m THEN Append(signals, r.title) ELSE signals
           /\ score_delta' = IF m THEN score_delta + r.score_impact ELSE score_delta
           /\ recs' = IF m THEN Append(recs, Recommendation(r)) ELSE recs
    /\ er_idx' = er_idx + 1
    /\ UNCHANGED <<rules, er_data, er_pc, base_signals, visibility, returned>>

\* check_engine.py line 51: rules = getattr(rules_file, "rules", None) or
\* rules_file.get("rules", []).  For the RulesFile get_rules returns, an empty
\* rules list is falsy and RulesFile has no get: AttributeError, which leaves
\* evaluate_rules and is caught at scan.py lines 608-610; the score stays.
EvaluateRulesRaise ==
    /\ er_pc = "loop"
    /\ Len(rules) = 0
    /\ er_pc' = "raised"
    /\ UNCHANGED <<rules, er_data, er_idx, signals, score_delta, recs, er_matched,
                   base_signals, visibility, returned>>

\* check_engine.py line 124 and scan.py lines 573-592: evaluate_rules returns
\* and scan_url adds the clamped delta to the score.
ScanUrlAdjust ==
    /\ er_pc = "loop"
    /\ Len(rules) > 0
    /\ er_idx > Len(rules)
    /\ visibility' = Cap(visibility + ClampDelta(score_delta))
    /\ er_pc' = "scored"
    /\ UNCHANGED <<rules, er_data, er_idx, signals, score_delta, recs, er_matched,
                   base_signals, returned>>

\* scan.py lines 569-570 and 608-610: get_rules raises; the score stays.
ScanUrlRulesFail ==
    /\ er_pc = "loop"
    /\ er_idx = 1
    /\ er_pc' = "failed"
    /\ UNCHANGED <<rules, er_data, er_idx, signals, score_delta, recs, er_matched,
                   base_signals, visibility, returned>>

\* scan.py lines 608-634: the final logging, the metrics and return result are
\* indented under except Exception.  After a rules-engine exception scan_url
\* returns result; when the try block ran through, the function body ends after
\* line 607 and scan_url returns None.
ScanUrlReturn ==
    /\ er_pc \in {"scored", "failed", "raised"}
    /\ returned = ""
    /\ returned' = IF er_pc = "scored" THEN "None" ELSE "result"
    /\ UNCHANGED <<rules, er_data, er_pc, er_idx, signals, score_delta, recs, er_matched,
                   base_signals, visibility>>

notRules == <<varsPsi, varsLedger, varsScores, varsRate, varsLoader>>

NextRules ==
    \/ EvaluateRulesRaise /\ UNCHANGED notRules
    \/ EvaluateRule /\ UNCHANGED notRules
    \/ ScanUrlAdjust /\ UNCHANGED notRules
    \/ ScanUrlRulesFail /\ UNCHANGED notRules
    \/ ScanUrlReturn /\ UNCHANGED notRules

InitRulesSpec == InitPsi /\ InitLedger /\ InitRules /\ IdleScores /\ InitRate /\ InitLoader

SpecRules == InitRulesSpec /\ [][NextRules]_vars

(* ======================= claims about the rules engine ======================= *)
RECURSIVE SumMatched(_, _, _)
SumMatched(rs, ms, i) ==
    IF i > Len(ms) THEN 0
    ELSE (IF ms[i] THEN rs[i].score_impact ELSE 0) + SumMatched(rs, ms, i + 1)

RECURSIVE MatchedRules(_, _, _)
MatchedRules(rs, ms, i) ==
    IF i > Len(ms) THEN <<>>
    ELSE (IF ms[i] THEN <<rs[i]>> ELSE <<>>) \o MatchedRules(rs, ms, i + 1)

ExprTruthy(e) == Truthy(SearchOrNone(e, er_data))
WhenOf(r) == {r.when[i] : i \in 1..Len(r.when)}
UnlessOf(r) == IF r.unless_given THEN {r.unless[i] : i \in 1..Len(r.unless)} ELSE {}

\* C11: in scan_url the delta of the rules engine is clamped to [-30, +30]
\* before it is added, and the visibility score after the addition (or after a
\* failed rules evaluation) is within [0, 100].
C11_ScoreClamp ==
    /\ er_pc = "scored" =>
          \E d \in -30..30 :
              /\ d = (IF score_delta > 30 THEN 30
                      ELSE IF score_delta < -30 THEN -30 ELSE score_delta)
              /\ visibility = Cap(BaseScore(base_signals) + d)
    /\ er_pc \in {"scored", "failed", "raised"} => visibility \in 0..100

C11_Witness ==
    /\ er_pc = "scored"
    /\ score_delta > 30
    /\ base_signals = {}
    /\ visibility = 80

\* C12: a rule is matched if and only if every when expression evaluates
\* truthy and no unless expression evaluates truthy; so a rule with an empty
\* when list and no truthy unless always matches and a rule with a truthy
\* unless never matches.
C12_MatchIff ==
    \A i \in 1..Len(er_matched) :
        LET r == rules[i] IN
        /\ er_matched[i] <=>
              ((\A e \in WhenOf(r) : ExprTruthy(e)) /\ ~(\E e \in UnlessOf(r) : ExprTruthy(e)))
        /\ (Len(r.when) = 0 /\ ~(\E e \in UnlessOf(r) : ExprTruthy(e))) => er_matched[i]
        /\ (\E e \in UnlessOf(r) : ExprTruthy(e)) => ~er_matched[i]

C12_Witness ==
    \E i \in 1..Len(er_matched), j \in 1..Len(er_matched) :
        /\ Len(rules[i].when) = 0 /\ er_matched[i]
        /\ (\A e \in WhenOf(rules[j]) : ExprTruthy(e))
        /\ (\E e \in UnlessOf(rules[j]) : ExprTruthy(e))
        /\ ~er_matched[j]

\* C13: score_delta is the sum of score_impact over exactly the matched rules,
\* with one signal and one recommendation per matched rule in rule order; and
\* the single rule {when: ["faq_count > 0"], score_impact: 5} evaluated with
\* faq_count = 3 matches and yields delta +5.
C13_DeltaIsSum ==
    /\ score_delta = SumMatched(rules, er_matched, 1)
    /\ signals = [i \in 1..Len(signals) |-> MatchedRules(rules, er_matched, 1)[i].title]
    /\ Len(signals) = Len(MatchedRules(rules, er_matched, 1))
    /\ recs = [i \in 1..Len(recs) |-> Recommendation(MatchedRules(rules, er_matched, 1)[i])]
    /\ Len(recs) = Len(signals)
    /\ (/\ er_pc = "scored"
        /\ rules = <<MkRule("r1", <<"faq_count > 0">>, FALSE, <<>>, 5)>>
        /\ er_data.faq_count = NumV(3))
          => (er_matched = <<TRUE>> /\ score_delta = 5)

\* jmespath.search raises for the expression on the document at hand
ExprRaises(e) == JmesSearch(e, er_data) = RaisedV

\* evaluating the rule reaches an expression that raises: a when expression
\* after truthy ones, or, with every when truthy, an unless expression after
\* unless expressions that are not truthy
EvaluationRaises(r) ==
    \/ \E i \in 1..Len(r.when) :
          /\ \A k \in 1..(i - 1) : ExprTruthy(r.when[k])
          /\ ExprRaises(r.when[i])
    \/ /\ \A k \in 1..Len(r.when) : ExprTruthy(r.when[k])
       /\ r.unless_given
       /\ \E i \in 1..Len(r.unless) :
             /\ \A k \in 1..(i - 1) : ~ExprTruthy(r.unless[k])
             /\ ExprRaises(r.unless[i])

\* C22: evaluate_rules never raises on a loaded rule set; a rule with an
\* expression whose evaluation raises is skipped, contributing no signal, no
\* delta and no recommendation, and every rule of the set is evaluated before
\* evaluate_rules returns.
C22_EvaluationNeverRaises ==
    /\ er_pc # "raised"
    /\ \A i \in 1..Len(er_matched) : EvaluationRaises(rules[i]) => ~er_matched[i]
    /\ er_pc = "scored" => Len(er_matched) = Len(rules)

\* C30: scan_url returns the scan response whether the rules engine ran through
\* or raised, and after a rules-engine failure the visibility score is the one
\* computed before the rules.
C30_ScanUrlReturns ==
    returned # "" =>
        /\ returned = "result"
        /\ er_pc \in {"failed", "raised"} => visibility = BaseScore(base_signals)

(* ============ dimension scoring: orchestrator._compute_scores ============ *)
Min(a, b) == IF a < b THEN a ELSE b

\* a point-rule of the scoring rules file: the keys _apply_rule reads
PointRule(type, multiplier, points, fallback_score, base_score) ==
    [type |-> type, multiplier |-> multiplier, points |-> points,
     fallback_score |-> fallback_score, base_score |-> base_score]

\* orchestrator.py lines 570-686: the points of one rule (the evidence list
\* is left out)
ApplyRule(rule, d) ==
    CASE rule.type = "faq_count" -> d.faq_count * rule.multiplier
      [] rule.type = "business_name" -> IF d.name THEN rule.points ELSE 0
      [] rule.type = "internal_links" -> Min(50, d.internal_links \div 10)
      [] rule.type = "psi_performance" ->
            IF d.performance.t # "null"
               THEN d.performance.v \div 2
               ELSE rule.fallback_score - rule.base_score
      [] OTHER -> 0

\* line 724 / 746: score = min(dim_config.get("max_score", 100), score)
DimensionCap(config, sc) == Min(config.max_score, sc)

PointRulePool ==
    { PointRule("faq_count", 10, 0, 0, 0),
      PointRule("business_name", 1, 20, 0, 0),
      PointRule("business_name", 1, -20, 0, 0),
      PointRule("internal_links", 1, 0, 0, 0),
      PointRule("psi_performance", 1, 0, 50, 50),
      PointRule("psi_performance", 1, 0, 0, 50) }

DimConfigs ==
    {[base_score |-> b, max_score |-> 100, rules |-> rs] :
        b \in {0, 50}, rs \in UNION {[1..n -> PointRulePool] : n \in 0..MaxDimRules}}

\* lines 693-704: the data dict built from page, biz and psi
ScoreInputs ==
    {[faq_count |-> f, name |-> n, internal_links |-> l, performance |-> p] :
        f \in {0, 12}, n \in BOOLEAN, l \in {5, 700}, p \in {NullV, NumV(45)}}

\* lines 708-711 / 730-733: a dimension starts at its base_score
\* the requests run_orchestration is called with (OrchestratorInput: url and
\* features.use_lighthouse); "blocked" is a url validate_url_or_raise rejects
OrchPayloads == [url : {"public", "blocked"}, use_lighthouse : BOOLEAN]

orch == <<orch_payload, orch_errors, orch_calls>>

InitScores ==
    /\ dim_config \in DimConfigs
    /\ sc_data \in ScoreInputs
    /\ sc_pc = "validate"
    /\ sc_idx = 1
    /\ score = dim_config.base_score
    /\ orch_payload \in OrchPayloads
    /\ orch_errors = <<>>
    /\ orch_calls = {}

\* run_orchestration lines 881-884: the url is validated; an SSRFProtectionError
\* is appended to errors and the function goes on
OrchValidate ==
    /\ sc_pc = "validate"
    /\ orch_errors' = IF orch_payload.url = "blocked"
                         THEN Append(orch_errors, "ssrf_blocked")
                         ELSE orch_errors
    /\ sc_pc' = "resolve"
    /\ UNCHANGED <<dim_config, sc_data, sc_idx, score, orch_payload, orch_calls>>

\* line 885 and _resolve_final_url (lines 244-252): an HTTP GET of payload.url
OrchResolve ==
    /\ sc_pc = "resolve"
    /\ orch_calls' = orch_calls \cup {"resolve_final_url"}
    /\ sc_pc' = "fetch_html"
    /\ UNCHANGED <<dim_config, sc_data, sc_idx, score, orch_payload, orch_errors>>

\* lines 887-896: fetch_html of the final url; an error becomes a note
OrchFetchHtml ==
    /\ sc_pc = "fetch_html"
    /\ orch_calls' = orch_calls \cup {"fetch_html"}
    /\ sc_pc' = "fetch_psi"
    /\ UNCHANGED <<dim_config, sc_data, sc_idx, score, orch_payload, orch_errors>>

\* lines 961-972: fetch_psi of the final url when features.use_lighthouse;
\* line 985: _compute_scores is called
OrchFetchPsi ==
    /\ sc_pc = "fetch_psi"
    /\ orch_calls' = IF orch_payload.use_lighthouse
                        THEN orch_calls \cup {"fetch_psi"}
                        ELSE orch_calls
    /\ sc_pc' = "rules"
    /\ UNCHANGED <<dim_config, sc_data, sc_idx, score, orch_payload, orch_errors>>

\* lines 713-716 / 735-738: one iteration of the loop over the dimension's rules
AddRulePoints ==
    /\ sc_pc = "rules"
    /\ sc_idx <= Len(dim_config.rules)
    /\ score' = score + ApplyRule(dim_config.rules[sc_idx], sc_data)
    /\ sc_idx' = sc_idx + 1
    /\ UNCHANGED <<dim_config, sc_data, sc_pc, orch>>

\* lines 718-724 / 740-746: the score is capped and the ScoreDimension appended
FinishDimension ==
    /\ sc_pc = "rules"
    /\ sc_idx > Len(dim_config.rules)
    /\ score' = DimensionCap(dim_config, score)
    /\ sc_pc' = "done"
    /\ UNCHANGED <<dim_config, sc_data, sc_idx, orch>>

notScores == <<varsPsi, varsLedger, varsRules, varsRate, varsLoader>>

NextScores ==
    \/ OrchValidate /\ UNCHANGED notScores
    \/ OrchResolve /\ UNCHANGED notScores
    \/ OrchFetchHtml /\ UNCHANGED notScores
    \/ OrchFetchPsi /\ UNCHANGED notScores
    \/ AddRulePoints /\ UNCHANGED notScores
    \/ FinishDimension /\ UNCHANGED notScores

InitScoresSpec == InitPsi /\ InitLedger /\ IdleRules /\ InitScores /\ InitRate /\ InitLoader

SpecScores == InitScoresSpec /\ [][NextScores]_vars

RECURSIVE SumPoints(_, _, _)
SumPoints(rs, d, i) ==
    IF i > Len(rs) THEN 0 ELSE ApplyRule(rs[i], d) + SumPoints(rs, d, i + 1)

\* C14: a dimension starts from base_score, adds the points of each of its
\* point-rules in order, and its final score is within [0, max_score].
C14_DimensionRange ==
    /\ sc_pc = "rules" =>
          score = dim_config.base_score
                     + SumPoints(SubSeq(dim_config.rules, 1, sc_idx - 1), sc_data, 1)
    /\ sc_pc = "done" => (score >= 0 /\ score <= dim_config.max_score)

\* C18: a url that fails validation is rejected before any job row is created
\* and before any external call: start_scan leaves no row for it, and
\* run_orchestration makes no fetch or metrics call for it.
C18_RejectedBeforeWork ==
    /\ \A j \in JobIds : Exists(j) => jobs[j].url # "blocked"
    /\ orch_payload.url = "blocked" => orch_calls = {}

(* ============ the rate limiter: scan.py _rate_check as scan_url calls it ============ *)
\* scan_url is a plain def endpoint, so each request runs on its own thread
\* and line 341 runs _rate_check on an event loop of its own (anyio.run).
\* _rate_lock is one asyncio.Lock shared by all of them; asyncio.Lock
\* excludes the tasks of one event loop from each other and is not
\* thread-safe, so the statements of concurrent calls interleave: its test of
\* the locked flag and its setting of the flag are two steps, as are the read
\* of the history and the write of it.

\* line 299: the entries of the history inside the window
InWindow(hist, now_) == SelectSeq(hist, LAMBDA t : t >= now_ - rate_window_seconds)

\* lines 296-297: scan_url is entered for a client and _rate_check reads the time
RateCheckBegin(t) ==
    /\ req[t].pc = "idle"
    /\ \E ip \in ClientIps :
          req' = [req EXCEPT ![t] = [@ EXCEPT !.pc = "acquire", !.ip = ip,
                                                !.now = rate_time]]
    /\ UNCHANGED <<rate_counters, rate_lock, rate_time, rate_ticks, admitted>>

\* line 298, Lock.acquire: the flag is tested. When it is set, the caller either
\* waits for a wake-up or the lock raises because it is used from another event
\* loop; the exception leaves anyio.run and lines 342-343 set ok = True.
LockTest(t) ==
    /\ req[t].pc = "acquire"
    /\ IF ~rate_lock
          THEN req' = [req EXCEPT ![t].pc = "lock_set"]
          ELSE \/ req' = [req EXCEPT ![t].pc = "waiting"]
               \/ req' = [req EXCEPT ![t] = [@ EXCEPT !.pc = "checked", !.ok = TRUE]]
    /\ UNCHANGED <<rate_counters, rate_lock, rate_time, rate_ticks, admitted>>

\* line 298, Lock.acquire: the flag is set after the test found it clear
LockSet(t) ==
    /\ req[t].pc = "lock_set"
    /\ rate_lock' = TRUE
    /\ req' = [req EXCEPT ![t].pc = "read"]
    /\ UNCHANGED <<rate_counters, rate_time, rate_ticks, admitted>>

\* line 298, Lock.acquire: a waiter is woken by a release and takes the lock
LockWake(t) ==
    /\ req[t].pc = "waiting"
    /\ ~rate_lock
    /\ rate_lock' = TRUE
    /\ req' = [req EXCEPT ![t].pc = "read"]
    /\ UNCHANGED <<rate_counters, rate_time, rate_ticks, admitted>>

\* lines 299-300: the client's history is read and cut to the window
ReadHist(t) ==
    /\ req[t].pc = "read"
    /\ req' = [req EXCEPT ![t] = [@ EXCEPT !.pc = "store",
                    !.hist = InWindow(rate_counters[req[t].ip], req[t].now)]]
    /\ UNCHANGED <<rate_counters, rate_lock, rate_time, rate_ticks, admitted>>

\* lines 301-306: over the limit the history is stored and the answer is False;
\* otherwise the time is appended, the history stored and the answer is True
StoreHist(t) ==
    /\ req[t].pc = "store"
    /\ IF Len(req[t].hist) >= rate_limit_per_min
          THEN /\ rate_counters' = [rate_counters EXCEPT ![req[t].ip] = req[t].hist]
               /\ req' = [req EXCEPT ![t] = [@ EXCEPT !.pc = "release", !.ok = FALSE]]
          ELSE /\ rate_counters' = [rate_counters EXCEPT ![req[t].ip] =
                                        Append(req[t].hist, req[t].now)]
               /\ req' = [req EXCEPT ![t] = [@ EXCEPT !.pc = "release", !.ok = TRUE]]
    /\ UNCHANGED <<rate_lock, rate_time, rate_ticks, admitted>>

\* line 298, Lock.release at the end of the async with: the flag is cleared;
\* on a lock that is not marked locked release raises RuntimeError, which
\* leaves anyio.run and makes lines 342-343 set ok = True
LockRelease(t) ==
    /\ req[t].pc = "release"
    /\ IF rate_lock
          THEN /\ rate_lock' = FALSE
               /\ req' = [req EXCEPT ![t].pc = "checked"]
          ELSE /\ rate_lock' = rate_lock
               /\ req' = [req EXCEPT ![t] = [@ EXCEPT !.pc = "checked", !.ok = TRUE]]
    /\ UNCHANGED <<rate_counters, rate_time, rate_ticks, admitted>>

\* scan_url lines 344-345: a request that is not ok is answered 429, any other
\* request goes on to the scan
ScanUrlAdmit(t) ==
    /\ req[t].pc = "checked"
    /\ admitted' = IF req[t].ok
                      THEN [admitted EXCEPT ![req[t].ip] = Append(@, req[t].now)]
                      ELSE admitted
    /\ req' = [req EXCEPT ![t].pc = IF req[t].ok THEN "admitted" ELSE "rejected"]
    /\ UNCHANGED <<rate_counters, rate_lock, rate_time, rate_ticks>>

\* time.time() advances
RateTick(d) ==
    /\ rate_ticks < MaxRateTicks
    /\ rate_time' = rate_time + d
    /\ rate_ticks' = rate_ticks + 1
    /\ UNCHANGED <<rate_counters, rate_lock, req, admitted>>

RateTickSteps == {1, rate_window_seconds + 1}

notRate == <<varsPsi, varsLedger, varsRules, varsScores, varsLoader>>

NextRate ==
    \/ \E t \in ReqThreads : RateCheckBegin(t) /\ UNCHANGED notRate
    \/ \E t \in ReqThreads : LockTest(t) /\ UNCHANGED notRate
    \/ \E t \in ReqThreads : LockSet(t) /\ UNCHANGED notRate
    \/ \E t \in ReqThreads : LockWake(t) /\ UNCHANGED notRate
    \/ \E t \in ReqThreads : ReadHist(t) /\ UNCHANGED notRate
    \/ \E t \in ReqThreads : StoreHist(t) /\ UNCHANGED notRate
    \/ \E t \in ReqThreads : LockRelease(t) /\ UNCHANGED notRate
    \/ \E t \in ReqThreads : ScanUrlAdmit(t) /\ UNCHANGED notRate
    \/ \E d \in RateTickSteps : RateTick(d) /\ UNCHANGED notRate

SpecRate == Init /\ [][NextRate]_vars

(* ======================= claims about the rate limiter ======================= *)
\* the requests of a client admitted within the window of 60 seconds that ends
\* at time e
AdmittedWithin(ip, e) ==
    {k \in DOMAIN admitted[ip] :
        admitted[ip][k] > e - rate_window_seconds /\ admitted[ip][k] <= e}

\* C19: under every interleaving of concurrent requests, a client has at most
\* the configured number of requests admitted within any sliding window of 60
\* seconds.
C19_RateLimit ==
    \A ip \in ClientIps : \A i \in DOMAIN admitted[ip] :
        Cardinality(AdmittedWithin(ip, admitted[ip][i])) <= rate_limit_per_min

(* ============ the rules loader: rules_loader.get_rules ============ *)
\* load_rules lines 50-63: the file is missing (FileNotFoundError) or its text
\* is rejected by RulesFile.model_validate (ValueError); otherwise the parsed
\* rules are returned
LoadRaises(file) == ~file.exists \/ file.content = "invalid"

\* line 70: mtime = p.stat().st_mtime if p.exists() else 0.0
StatMtime(file) == IF file.exists THEN file.mtime ELSE 0

\* a reload condition that ignores the modification time
MustLoad_Mutant(q, mtime) == cached_rules = NoRules \/ cached_path # q

\* line 73: _cached_rules is None or _cached_path != p or
\* (_cached_mtime or 0.0) < mtime
MustLoad(q, mtime) == cached_rules = NoRules \/ cached_path # q \/ cached_mtime < mtime

\* lines 69-70: get_rules is entered with a path and reads the file's
\* modification time, before taking _lock
GetRulesStat(t, q) ==
    /\ gr[t].pc \in {"idle", "done"}
    /\ loads < MaxLoads
    /\ loads' = loads + 1
    /\ gr' = [gr EXCEPT ![t] = [pc |-> "locked", p |-> q,
                                mtime |-> StatMtime(rules_files[q]),
                                out |-> NoRules, how |-> ""]]
    /\ UNCHANGED <<rules_files, cached_rules, cached_path, cached_mtime, writes>>

\* lines 72-80, under _lock: the file is loaded and cached when the cache does
\* not answer for the path and the modification time read at line 70; an
\* exception of load_rules leaves the function before any of the globals is
\* assigned
GetRulesLocked(t) ==
    /\ gr[t].pc = "locked"
    /\ IF MustLoad(gr[t].p, gr[t].mtime)
          THEN IF LoadRaises(rules_files[gr[t].p])
                  THEN /\ gr' = [gr EXCEPT ![t] = [@ EXCEPT !.pc = "done", !.how = "raised"]]
                       /\ UNCHANGED <<cached_rules, cached_path, cached_mtime>>
                  ELSE /\ cached_rules' = rules_files[gr[t].p].content
                       /\ cached_path' = gr[t].p
                       /\ cached_mtime' = gr[t].mtime
                       /\ gr' = [gr EXCEPT ![t] = [@ EXCEPT !.pc = "done", !.how = "loaded",
                                                    !.out = rules_files[gr[t].p].content]]
          ELSE /\ gr' = [gr EXCEPT ![t] = [@ EXCEPT !.pc = "done", !.how = "cached",
                                                    !.out = cached_rules]]
               /\ UNCHANGED <<cached_rules, cached_path, cached_mtime>>
    /\ UNCHANGED <<rules_files, writes, loads>>

\* the rules file at a path is written (edited, deployed, restored from a
\* copy) with some content and modification time
WriteRulesFile(q, c, mt) ==
    /\ writes < MaxWrites
    /\ writes' = writes + 1
    /\ rules_files' = [rules_files EXCEPT ![q] = [exists |-> TRUE, mtime |-> mt, content |-> c]]
    /\ UNCHANGED <<cached_rules, cached_path, cached_mtime, gr, loads>>

\* the rules file at a path is removed
RemoveRulesFile(q) ==
    /\ writes < MaxWrites
    /\ rules_files[q].exists
    /\ writes' = writes + 1
    /\ rules_files' = [rules_files EXCEPT ![q] = NoFile]
    /\ UNCHANGED <<cached_rules, cached_path, cached_mtime, gr, loads>>

notLoader == <<varsPsi, varsLedger, varsRules, varsScores, varsRate>>

NextLoader ==
    \/ \E t \in LoaderThreads, q \in RulePaths : GetRulesStat(t, q) /\ UNCHANGED notLoader
    \/ \E t \in LoaderThreads : GetRulesLocked(t) /\ UNCHANGED notLoader
    \/ \E q \in RulePaths, c \in RuleContents, mt \in 1..MaxMtime :
          WriteRulesFile(q, c, mt) /\ UNCHANGED notLoader
    \/ \E q \in RulePaths : RemoveRulesFile(q) /\ UNCHANGED notLoader

SpecLoader == Init /\ [][NextLoader]_vars

(* ======================= claims about the rules loader ======================= *)
\* the cache holds rules for the path of call t
CachedFor(t) == cached_rules # NoRules /\ cached_path = gr[t].p

\* C25: a get_rules call returns the cached rules when the modification time
\* it reads is not later than the cached one (same path); when it is later the
\* call reads the file again, caches and returns what it loaded, and when that
\* load fails the call raises and the cached rules, path and modification
\* time stay as they were.
C25_ReloadOnMtime ==
    [][\A t \in LoaderThreads :
         (gr[t].pc = "locked" /\ gr'[t].pc = "done") =>
            /\ (CachedFor(t) /\ gr[t].mtime <= cached_mtime) =>
                  /\ gr'[t].how = "cached"
                  /\ gr'[t].out = cached_rules
                  /\ UNCHANGED <<cached_rules, cached_path, cached_mtime>>
            /\ (CachedFor(t) /\ gr[t].mtime > cached_mtime) =>
                  IF LoadRaises(rules_files[gr[t].p])
                     THEN /\ gr'[t].how = "raised"
                          /\ gr'[t].out = NoRules
                          /\ UNCHANGED <<cached_rules, cached_path, cached_mtime>>
                     ELSE /\ gr'[t].how = "loaded"
                          /\ gr'[t].out = rules_files[gr[t].p].content
                          /\ cached_rules' = gr'[t].out
                          /\ cached_path' = gr[t].p
                          /\ cached_mtime' = gr[t].mtime]_vars

C25_Witness ==
    \E t \in LoaderThreads, o \in LoaderThreads :
        /\ t # o
        /\ gr[t].pc = "done" /\ gr[t].how = "raised"
        /\ CachedFor(t) /\ cached_mtime < gr[t].mtime
        /\ gr[o].pc = "done" /\ gr[o].how = "loaded"
        /\ gr[o].p = gr[t].p /\ gr[o].out = "rulesB" /\ cached_rules = "rulesB"
        /\ cached_mtime > 1

====
